---- MODULE Spec2Model ----
(***************************************************************************)
(* A model of the label-map utilities of src/utils/diffusion_condensation  *)
(* and of the dataset adapters of src/datasets.                            *)
(*                                                                         *)
(* Every function of the repository is a synchronous computation, so each  *)
(* has a specification of its own: Init draws the arguments from bounded   *)
(* sets and the actions are the steps of the function.  The variables of   *)
(* the functions a specification does not run stay Idle.                   *)
(*                                                                         *)
(* Arrays are stored flattened, row-major: a frame [H, W] is a sequence of *)
(* H*W labels and a batch [B, H, W] a sequence of B frames.  Quotients the *)
(* code computes in floating point (Dice, IoU, area ratios) are kept as    *)
(* pairs <<numerator, denominator>> and compared by cross-multiplication;  *)
(* the operands are small integers, for which the float comparison and the *)
(* exact one agree.                                                        *)
(***************************************************************************)
EXTENDS Integers, Sequences, FiniteSets, TLC

VARIABLES
    pc,                \* the position of the running function
    labels,            \* argument `labels`: a batch [B, H*W] or a map [H*W]
    ordered_labels,    \* associate_frames: the batch being relabeled
    image_idx,         \* associate_frames: the loop variable (0-based)
    mask,              \* cluster_indices_from_mask: argument `mask`, [H*W] booleans
    top1_only,         \* cluster_indices_from_mask: argument `top1_only`
    best_cluster_indices,  \* cluster_indices_from_mask: the selected indices
    dice_map,          \* cluster_indices_from_mask: label index -> its Dice
    label,             \* continuous_renumber: argument `label`, rewritten in place
    label_orig,        \* continuous_renumber: the copy taken on entry
    min_frame_ratio,   \* most_persistent_structures: argument, <<num, den>>
    min_area_ratio,    \* most_persistent_structures: argument, <<num, den>>
    filtered_labels,   \* most_persistent_structures: the batch being filtered
    persistent_label,  \* most_persistent_structures: the consensus map [H*W]
    persistence_heap,  \* most_persistent_structures: (score, label_idx) entries
    in_image,          \* crop_or_pad: argument, index tuple -> value
    in_shape,          \* crop_or_pad: argument, the shape of in_image
    out_shape,         \* crop_or_pad: argument
    pad_value,         \* crop_or_pad: argument
    out_image,         \* crop_or_pad: the result, index tuple -> value
    shape,             \* pos_enc_sinusoid: argument `shape`, <<H, W, C>>
    pos_enc,           \* pos_enc_sinusoid: the shape of the array built
    data_image,        \* EsophagusCancer: self.data_image, flattened
    X_orig,            \* diffusion_condensation_simple: argument, [N][C]
    X,                 \* diffusion_condensation_simple: the diffused features
    A,                 \* diffusion_condensation_simple: the affinity matrix
    A_prev,            \* diffusion_condensation_simple: that of the last pass
    clusters,          \* diffusion_condensation_simple: component of each row
    converged,         \* diffusion_condensation_simple: the loop flag
    num_iter           \* passes of the loop completed (capped by DCMaxIter)

assocVars == <<ordered_labels, image_idx>>
maskVars == <<mask, top1_only, best_cluster_indices, dice_map>>

renumVars == <<label, label_orig>>

persistVars == <<min_frame_ratio, min_area_ratio, filtered_labels,
                 persistent_label, persistence_heap>>

cropVars == <<in_image, in_shape, out_shape, pad_value, out_image>>

posVars == <<shape, pos_enc>>

dcVars == <<X_orig, X, A, A_prev, clusters, converged, num_iter>>

vars == <<pc, labels, assocVars, maskVars, renumVars, persistVars, cropVars,
          posVars, data_image, dcVars>>

Idle == "idle"

\* The variables of a function that is not running.
AssocIdle == ordered_labels = Idle /\ image_idx = Idle
MaskIdle ==
    mask = Idle /\ top1_only = Idle /\ best_cluster_indices = Idle /\ dice_map = Idle
RenumIdle == label = Idle /\ label_orig = Idle
PersistIdle ==
    /\ min_frame_ratio = Idle /\ min_area_ratio = Idle /\ filtered_labels = Idle
    /\ persistent_label = Idle /\ persistence_heap = Idle

CropIdle ==
    /\ in_image = Idle /\ in_shape = Idle /\ out_shape = Idle
    /\ pad_value = Idle /\ out_image = Idle

PosIdle == shape = Idle /\ pos_enc = Idle
EsoIdle == data_image = Idle
DCIdle ==
    /\ X_orig = Idle /\ X = Idle /\ A = Idle /\ A_prev = Idle
    /\ clusters = Idle /\ converged = Idle /\ num_iter = Idle

\* ------------------------------------------------------------------ bounds
MaxB == 3
MaxHW == 2
MaxLabel == 1
\* cluster_indices_from_mask: pixels of the map, largest label value
MaskHW == 4
MaskMaxLabel == 2
\* continuous_renumber: pixels of the map, largest label value
RenumHW == 3
RenumMaxLabel == 3
\* most_persistent_structures: frames, pixels per frame, largest label value
PersistB == 2
PersistHW == 2
PersistMaxLabel == 1
\* crop_or_pad: the rank of the arrays, the largest size of an axis
CropMaxRank == 2
CropMaxDim == 3
\* pos_enc_sinusoid: largest H and W, largest C
PosMaxHW == 3
PosMaxC == 9
\* EsophagusCancer: pixel values stored
EsoPixels == 1

LabelValues == 0..MaxLabel
Frames(hw) == [1..hw -> LabelValues]
Batches(b, hw) == [1..b -> Frames(hw)]

\* ----------------------------------------------------------- numpy helpers
\* np.unique as a set, and as the ascending sequence numpy returns.
UniqueSet(f) == {f[p] : p \in DOMAIN f}

RECURSIVE SortedSeq(_)
SortedSeq(S) ==
    IF S = {} THEN <<>>
    ELSE LET m == CHOOSE x \in S : \A y \in S : x <= y
         IN <<m>> \o SortedSeq(S \ {m})

Unique(f) == SortedSeq(UniqueSet(f))

\* The pixels of frame f that hold label v: `f == v`.
Footprint(f, v) == {p \in DOMAIN f : f[p] = v}

\* a/b < c/d for denominators > 0.
RatLess(x, y) == x[1] * y[2] < y[1] * x[2]

RECURSIVE GCD(_, _)
GCD(a, b) == IF b = 0 THEN a ELSE GCD(b, a % b)

\* Fractions in lowest terms, so that sums of many of them stay small.
RatNorm(x) == LET g == GCD(x[1], x[2]) IN IF g = 0 THEN <<0, 1>> ELSE <<x[1] \div g, x[2] \div g>>
RatAdd(x, y) == RatNorm(<<x[1] * y[2] + y[1] * x[2], x[2] * y[2]>>)

RECURSIVE RatSum(_)
RatSum(xs) == IF xs = <<>> THEN <<0, 1>> ELSE RatAdd(Head(xs), RatSum(Tail(xs)))

\* -------------------------------------------------------- associate_frames
\* label_vec_prev and label_vec_next hold signed 16-bit values (dtype=np.int16)
\* and np.matmul of two such arrays is one again: a sum wraps around.
Int16Mod == 65536
Int16Max == Int16Mod \div 2 - 1
Int16(n) == ((n + Int16Mod \div 2) % Int16Mod) - Int16Mod \div 2

\* intersection_matrix[a, b] = label_vec_prev[a] . label_vec_next[b]
IntersectionCount(prev, next, a, b) ==
    Int16(Cardinality(Footprint(prev, a) \cap Footprint(next, b)))

\* union_matrix[a, b] = H*W - (1 - label_vec_prev[a]) . (1 - label_vec_next[b]).
\* The product is 16 bits wide.  The integer H*W is taken into the type of the
\* array when it fits; when it does not, the difference is computed in 32
\* bits by a numpy that promotes by value (AssociateOverflow is the other).
UnionCount(prev, next, a, b) ==
    LET neither ==
            Int16(Cardinality({p \in DOMAIN prev : prev[p] # a /\ next[p] # b}))
    IN  IF Len(prev) <= Int16Max THEN Int16(Len(prev) - neither)
        ELSE Len(prev) - neither

Iou(prev, next, a, b) ==
    <<IntersectionCount(prev, next, a, b), UnionCount(prev, next, a, b)>>

\* np.sum(iou_matrix[..., i]) > 0.
IouColumnPositive(prev, next, b) ==
    LET rows == Unique(prev)
    IN  RatSum([r \in DOMAIN rows |-> Iou(prev, next, rows[r], b)])[1] > 0

\* np.unique(label_prev)[np.argmax(iou_matrix[..., i])]: the first maximum
\* in the ascending order of the prev labels.
ArgmaxPrev(prev, next, b) ==
    CHOOSE a \in UniqueSet(prev) :
        \A a2 \in UniqueSet(prev) :
            /\ ~RatLess(Iou(prev, next, a, b), Iou(prev, next, a2, b))
            /\ (a2 < a => RatLess(Iou(prev, next, a2, b), Iou(prev, next, a, b)))

\* The label the pixels of `loc` receive for next-label b.
RelabelTarget(prev, next0, b) ==
    IF IouColumnPositive(prev, next0, b) THEN ArgmaxPrev(prev, next0, b) ELSE 0

\* The pixels a relabeling of label b writes: `loc` is read from the array
\* being rewritten, ordered_labels[image_idx + 1, ...].
Loc(cur, b) == {p \in DOMAIN cur : cur[p] = b}

\* The inner loop over enumerate(np.unique(label_next)): uniq and the IoU
\* matrix are computed from the frame as it is before the loop (next0).
RECURSIVE RelabelLoop(_, _, _, _, _)
RelabelLoop(cur, prev, next0, uniq, i) ==
    IF i > Len(uniq) THEN cur
    ELSE LET b == uniq[i]
             loc == Loc(cur, b)
             t == RelabelTarget(prev, next0, b)
         IN RelabelLoop([p \in DOMAIN cur |-> IF p \in loc THEN t ELSE cur[p]],
                        prev, next0, uniq, i + 1)

AssocInit ==
    /\ pc = "associate_frames"
    /\ \E b \in 2..MaxB : \E hw \in 1..MaxHW : labels \in Batches(b, hw)
    /\ ordered_labels = labels
    /\ image_idx = 0
    /\ MaskIdle
    /\ RenumIdle
    /\ PersistIdle
    /\ CropIdle
    /\ PosIdle
    /\ EsoIdle
    /\ DCIdle

\* One iteration of `for image_idx in range(B - 1)`.
AssociateStep ==
    /\ pc = "associate_frames"
    /\ image_idx < Len(labels) - 1
    /\ LET prev == ordered_labels[image_idx + 1]
           next0 == ordered_labels[image_idx + 2]
       IN ordered_labels' =
              [ordered_labels EXCEPT ![image_idx + 2] =
                  RelabelLoop(next0, prev, next0, Unique(next0), 1)]
    /\ image_idx' = image_idx + 1
    /\ UNCHANGED <<pc, labels, maskVars, renumVars, persistVars, cropVars, posVars, data_image, dcVars>>

\* `return ordered_labels`
AssociateReturn ==
    /\ pc = "associate_frames"
    /\ image_idx = Len(labels) - 1
    /\ pc' = "done"
    /\ UNCHANGED <<labels, assocVars, maskVars, renumVars, persistVars, cropVars, posVars, data_image, dcVars>>

AssocNext == AssociateStep \/ AssociateReturn

SpecAssoc == AssocInit /\ [][AssocNext]_vars

\* The same function on batches that include frames of H*W = 2^15 pixels, the
\* least size a 16-bit count cannot hold: two frames, each of one label.
WideHW == Int16Max + 1
WideFrame(v) == [p \in 1..WideHW |-> v]
WideBatches == {<<WideFrame(a), WideFrame(b)>> : a \in LabelValues, b \in LabelValues}

AssocWideInit ==
    /\ pc = "associate_frames"
    /\ \/ \E b \in 2..MaxB : \E hw \in 1..MaxHW : labels \in Batches(b, hw)
       \/ labels \in WideBatches
    /\ ordered_labels = labels
    /\ image_idx = 0
    /\ MaskIdle
    /\ RenumIdle
    /\ PersistIdle
    /\ CropIdle
    /\ PosIdle
    /\ EsoIdle
    /\ DCIdle

\* Line 288 under a numpy that gives the integer H*W the type of the array
\* (version 2): H*W does not fit 16 bits and the subtraction raises.
AssociateOverflow ==
    /\ pc = "associate_frames"
    /\ image_idx < Len(labels) - 1
    /\ Len(labels[1]) > Int16Max
    /\ pc' = "OverflowError"
    /\ UNCHANGED <<labels, assocVars, maskVars, renumVars, persistVars, cropVars,
                   posVars, data_image, dcVars>>

AssocWideNext == AssociateStep \/ AssociateOverflow \/ AssociateReturn

SpecAssocWide == AssocWideInit /\ [][AssocWideNext]_vars

\* ------------------------------------------------------------------ C1
\* The prev labels whose footprint has the maximum IoU with the footprint of
\* next-label b.
MaxIouLabels(prev, next, b) ==
    {a \in UniqueSet(prev) :
        \A a2 \in UniqueSet(prev) :
            ~RatLess(Iou(prev, next, a, b), Iou(prev, next, a2, b))}

\* C1: in every frame already relabeled, each pixel holds a label of the
\* (relabeled) previous frame whose footprint has the maximum IoU with the
\* footprint of the label the pixel held before the step.
C1_MaxIouRelabel ==
    pc \in {"associate_frames", "done"} =>
        \A k \in 2..(image_idx + 1) : \A p \in DOMAIN labels[k] :
            ordered_labels[k][p] \in
                MaxIouLabels(ordered_labels[k - 1], labels[k], labels[k][p])

\* ------------------------------------------------------------------ C11
\* C11: whatever the batch and however many frame pairs have been processed,
\* frame 0 of the output equals frame 0 of the input and the labels present
\* in every processed frame are among the labels present in the (relabeled)
\* frame before it.
C11_LabelsFromPreviousFrame ==
    pc \in {"associate_frames", "done"} =>
        /\ ordered_labels[1] = labels[1]
        /\ \A k \in 2..(image_idx + 1) :
              UniqueSet(ordered_labels[k]) \subseteq UniqueSet(ordered_labels[k - 1])

\* ------------------------------------------------ cluster_indices_from_mask
\* utils.metrics.dice_coeff: 2 |A and B| / (|A| + |B|), 0 for two empty masks.
\* The two masks are sets of pixels.
dice_coeff(label_pred, label_true) ==
    IF label_pred = {} /\ label_true = {} THEN <<0, 1>>
    ELSE <<2 * Cardinality(label_pred \cap label_true),
           Cardinality(label_pred) + Cardinality(label_true)>>

MaskSet(m) == {p \in DOMAIN m : m[p]}

\* np.logical_or.reduce([labels == i for i in idxs])
UnionFootprint(lab, idxs) ==
    {p \in DOMAIN lab : \E k \in DOMAIN idxs : lab[p] = idxs[k]}

\* The heap after the pushes of (-dice_coeff(labels == cluster_idx, mask),
\* cluster_idx) for every distinct label: a set of records.
DiceHeap(lab, m) ==
    {[dice |-> dice_coeff(Footprint(lab, i), MaskSet(m)), idx |-> i] :
        i \in UniqueSet(lab)}

\* The pop of a heap whose scores were pushed without the negation: the least
\* Dice first.
HeapPop_MinHeap(heap) ==
    CHOOSE e \in heap : \A f \in heap :
        \/ f = e
        \/ RatLess(e.dice, f.dice)
        \/ (~RatLess(f.dice, e.dice) /\ e.idx < f.idx)

\* heapq.heappop: the least tuple (-dice, cluster_idx), that is the greatest
\* Dice and, among equal Dice, the least label index.
HeapPop(heap) ==
    CHOOSE e \in heap : \A f \in heap :
        \/ f = e
        \/ RatLess(f.dice, e.dice)
        \/ (~RatLess(e.dice, f.dice) /\ e.idx < f.idx)

\* `for _ in range(len(dice_heap))`: pop, record the Dice, try the merge.
RECURSIVE MergeLoop(_, _, _, _, _, _)
MergeLoop(heap, best_dice, best, dmap, lab, m) ==
    IF heap = {} THEN <<best, dmap>>
    ELSE LET e == HeapPop(heap)
             dmap2 == [i \in DOMAIN dmap \cup {e.idx} |->
                          IF i = e.idx THEN e.dice ELSE dmap[i]]
             cluster_idx_candidate == Append(best, e.idx)
             dice_candidate ==
                 dice_coeff(UnionFootprint(lab, cluster_idx_candidate), MaskSet(m))
         IN IF RatLess(best_dice, dice_candidate)
            THEN MergeLoop(heap \ {e}, dice_candidate, cluster_idx_candidate,
                           dmap2, lab, m)
            ELSE MergeLoop(heap \ {e}, best_dice, best, dmap2, lab, m)

MaskInit ==
    /\ pc = "cluster_indices_from_mask"
    /\ labels \in [1..MaskHW -> 0..MaskMaxLabel]
    /\ mask \in [1..MaskHW -> BOOLEAN]
    /\ top1_only \in BOOLEAN
    /\ best_cluster_indices = Idle
    /\ dice_map = Idle
    /\ AssocIdle
    /\ RenumIdle
    /\ PersistIdle
    /\ CropIdle
    /\ PosIdle
    /\ EsoIdle
    /\ DCIdle

\* The whole call.  With top1_only the function returns the best index alone
\* (kept here as a one-element list, with no score map).
ClusterIndicesFromMask ==
    /\ pc = "cluster_indices_from_mask"
    /\ LET heap == DiceHeap(labels, mask)
           first == HeapPop(heap)
           r == MergeLoop(heap \ {first}, first.dice, <<first.idx>>,
                          [i \in {first.idx} |-> first.dice], labels, mask)
       IN IF top1_only
          THEN /\ best_cluster_indices' = <<first.idx>>
               /\ dice_map' = Idle
          ELSE /\ best_cluster_indices' = r[1]
               /\ dice_map' = r[2]
    /\ pc' = "done"
    /\ UNCHANGED <<labels, mask, top1_only, assocVars, renumVars, persistVars, cropVars, posVars, data_image, dcVars>>

MaskNext == ClusterIndicesFromMask

SpecMask == MaskInit /\ [][MaskNext]_vars

\* ------------------------------------------------------------------ C2
SeqToSet(s) == {s[k] : k \in DOMAIN s}

\* The labels under the mask, and whether the mask is exactly the union of
\* the footprints of a non-empty set of labels.
LabelsUnderMask == {labels[p] : p \in MaskSet(mask)}
MaskIsUnionOfLabels ==
    /\ MaskSet(mask) # {}
    /\ \A p \in DOMAIN labels : labels[p] \in LabelsUnderMask => mask[p]

C2_Case ==
    /\ pc = "done"
    /\ top1_only = FALSE
    /\ MaskIsUnionOfLabels

\* C2: for a mask that is the union of the footprints of a label set S, the
\* selected list holds exactly the labels of S, each once; the union of the
\* selected footprints has Dice 1 against the mask; the score map has an
\* entry for every label of the map and every label outside S scores below 1.
C2_ExactUnionSelected ==
    C2_Case =>
        /\ SeqToSet(best_cluster_indices) = LabelsUnderMask
        /\ Len(best_cluster_indices) = Cardinality(LabelsUnderMask)
        /\ LET d == dice_coeff(UnionFootprint(labels, best_cluster_indices),
                               MaskSet(mask))
           IN d[1] = d[2]
        /\ DOMAIN dice_map = UniqueSet(labels)
        /\ \A i \in UniqueSet(labels) \ LabelsUnderMask :
               RatLess(dice_map[i], <<1, 1>>)

\* Three regions, the mask the union of two of them.
C2_Witness ==
    /\ C2_Case
    /\ Cardinality(UniqueSet(labels)) = 3
    /\ Cardinality(LabelsUnderMask) = 2
    /\ Len(best_cluster_indices) = 2

\* ------------------------------------------------------ continuous_renumber
\* `for (a, b) in zip(val_before, val_after): label[label_orig == a] = b`
\* from the k-th pair on; val_after[k] = k - 1.
\* The loop without the copy: `label[label == a] = b` reads the values the
\* earlier pairs have written.
RECURSIVE RenumberLoop_Live(_, _, _, _)
RenumberLoop_Live(lab, orig, val_before, k) ==
    IF k > Len(val_before) THEN lab
    ELSE RenumberLoop_Live([p \in DOMAIN lab |->
                               IF lab[p] = val_before[k] THEN k - 1 ELSE lab[p]],
                           orig, val_before, k + 1)

RECURSIVE RenumberLoop(_, _, _, _)
RenumberLoop(lab, orig, val_before, k) ==
    IF k > Len(val_before) THEN lab
    ELSE RenumberLoop([p \in DOMAIN lab |->
                          IF orig[p] = val_before[k] THEN k - 1 ELSE lab[p]],
                      orig, val_before, k + 1)

continuous_renumber(lab) == RenumberLoop(lab, lab, Unique(lab), 1)

\* Any integer label map: negative values too.
RenumInit ==
    /\ pc = "continuous_renumber"
    /\ \E hw \in 1..RenumHW : label \in [1..hw -> (-1)..RenumMaxLabel]
    /\ label_orig = Idle
    /\ labels = Idle
    /\ AssocIdle
    /\ MaskIdle
    /\ PersistIdle
    /\ CropIdle
    /\ PosIdle
    /\ EsoIdle
    /\ DCIdle

\* The whole call.  A caller may hand the result back in: "once" and then
\* "twice" count the calls made on the same array.
ContinuousRenumber ==
    /\ pc \in {"continuous_renumber", "once"}
    /\ label_orig' = label
    /\ label' = continuous_renumber(label)
    /\ pc' = IF pc = "continuous_renumber" THEN "once" ELSE "twice"
    /\ UNCHANGED <<labels, assocVars, maskVars, persistVars, cropVars, posVars, data_image, dcVars>>

RenumNext == ContinuousRenumber

SpecRenum == RenumInit /\ [][RenumNext]_vars

\* ------------------------------------------------------------------ C3
\* The rank of v among the distinct values of map f.
Rank(f, v) == Cardinality({u \in UniqueSet(f) : u < v})

\* C3: after a call the map has the same shape and every pixel holds the
\* rank of its original value among the distinct original values, so the
\* values are exactly 0..K-1, equal pixels stay equal and unequal ones
\* unequal, and the order of values is kept; a second call changes nothing.
C3_RenumberIsRank ==
    /\ pc = "once" =>
          /\ DOMAIN label = DOMAIN label_orig
          /\ \A p \in DOMAIN label : label[p] = Rank(label_orig, label_orig[p])
          /\ UniqueSet(label) = 0..(Cardinality(UniqueSet(label_orig)) - 1)
          /\ \A p, q \in DOMAIN label :
                /\ (label[p] = label[q]) <=> (label_orig[p] = label_orig[q])
                /\ (label_orig[p] < label_orig[q]) => (label[p] < label[q])
    /\ pc = "twice" => label = label_orig

\* A map with a negative value and a gap, renumbered to three ranks.
C3_Witness ==
    /\ pc = "once"
    /\ \E p \in DOMAIN label_orig : label_orig[p] < 0
    /\ \E p \in DOMAIN label_orig : label_orig[p] = RenumMaxLabel
    /\ UniqueSet(label) = 0..2

\* ----------------------------------------------- most_persistent_structures
\* The distinct labels of a whole batch, ascending: np.unique(filtered_labels).
BatchUniqueSet(batch) == UNION {UniqueSet(batch[i]) : i \in DOMAIN batch}

\* existent_frames[i] and existent_frames[i + 1], for the 1-based frame i.
ExistsInPair(batch, l, i) ==
    Footprint(batch[i], l) # {} /\ Footprint(batch[i + 1], l) # {}

\* num_frames: the adjacent pairs in both frames of which label l exists.
NumFrames(batch, l) ==
    Cardinality({i \in 1..(Len(batch) - 1) : ExistsInPair(batch, l, i)})

\* sum_dice over the pairs i..B-1.
RECURSIVE SumDice(_, _, _)
SumDice(batch, l, i) ==
    IF i > Len(batch) - 1 THEN <<0, 1>>
    ELSE IF ExistsInPair(batch, l, i)
         THEN RatAdd(dice_coeff(Footprint(batch[i], l), Footprint(batch[i + 1], l)),
                     SumDice(batch, l, i + 1))
         ELSE SumDice(batch, l, i + 1)

\* sum_area_ratio * (H * W) over the pairs i..B-1: the areas in the earlier
\* frame of each pair.
RECURSIVE SumArea(_, _, _)
SumArea(batch, l, i) ==
    IF i > Len(batch) - 1 THEN 0
    ELSE (IF ExistsInPair(batch, l, i) THEN Cardinality(Footprint(batch[i], l)) ELSE 0)
         + SumArea(batch, l, i + 1)

\* mean_dice, the persistence score.
MeanDice(batch, l) ==
    LET n == NumFrames(batch, l)
        s == SumDice(batch, l, 1)
    IN IF n = 0 THEN <<0, 1>> ELSE RatNorm(<<s[1], s[2] * n>>)

\* mean_area_ratio = sum_area_ratio / num_frames, 0 without a pair.
MeanAreaRatio(batch, l) ==
    LET n == NumFrames(batch, l)
    IN IF n = 0 THEN <<0, 1>> ELSE <<SumArea(batch, l, 1), Len(batch[1]) * n>>

\* The filter with `and` for `or`.
FilteredOut_And(batch, l, mfr, mar) ==
    /\ RatLess(MeanAreaRatio(batch, l), mar)
    /\ NumFrames(batch, l) * mfr[2] < mfr[1] * Len(batch)

\* mean_area_ratio < min_area_ratio or num_frames < min_frame_ratio * B
FilteredOut(batch, l, mfr, mar) ==
    \/ RatLess(MeanAreaRatio(batch, l), mar)
    \/ NumFrames(batch, l) * mfr[2] < mfr[1] * Len(batch)

\* filtered_labels[filtered_labels == label_idx] = 0
ZeroOut(batch, l) ==
    [i \in DOMAIN batch |-> [p \in DOMAIN batch[i] |->
        IF batch[i][p] = l THEN 0 ELSE batch[i][p]]]

\* The first loop, over np.unique(filtered_labels) as it is on entry: each
\* label is scored on the batch as filtered so far, then zeroed or pushed.
\* The result is <<filtered_labels, persistence_heap>>.
RECURSIVE ScoreLoop(_, _, _, _, _, _)
ScoreLoop(filt, heap, uniq, k, mfr, mar) ==
    IF k > Len(uniq) THEN <<filt, heap>>
    ELSE LET l == uniq[k]
         IN IF FilteredOut(filt, l, mfr, mar)
            THEN ScoreLoop(ZeroOut(filt, l), heap, uniq, k + 1, mfr, mar)
            ELSE ScoreLoop(filt,
                           heap \cup {[score |-> MeanDice(filt, l), idx |-> l]},
                           uniq, k + 1, mfr, mar)

\* heapq.heappop on (persistence_score, label_idx): the least score and,
\* among equal scores, the least label index.
PersistPop(heap) ==
    CHOOSE e \in heap : \A f \in heap :
        \/ f = e
        \/ RatLess(e.score, f.score)
        \/ (~RatLess(f.score, e.score) /\ e.idx < f.idx)

\* loc = np.sum(filtered_labels == label_idx, axis=0) > min_frame_ratio
PersistLoc(filt, l, mfr) ==
    {p \in DOMAIN filt[1] :
        Cardinality({i \in DOMAIN filt : filt[i][p] = l}) * mfr[2] > mfr[1]}

\* The second loop: pop every entry, skip label 0, write the others.
RECURSIVE RecolorLoop(_, _, _, _)
RecolorLoop(pl, heap, filt, mfr) ==
    IF heap = {} THEN pl
    ELSE LET e == PersistPop(heap)
         IN IF e.idx = 0
            THEN RecolorLoop(pl, heap \ {e}, filt, mfr)
            ELSE RecolorLoop([p \in DOMAIN pl |->
                                 IF p \in PersistLoc(filt, e.idx, mfr)
                                 THEN e.idx ELSE pl[p]],
                             heap \ {e}, filt, mfr)

\* The arguments' defaults: min_frame_ratio = 0.4, min_area_ratio = 1 / 500.
DefaultMinFrameRatio == <<2, 5>>
DefaultMinAreaRatio == <<1, 500>>

\* Ten frames of four pixels: label 1 holds pixels 1 and 2 in every frame,
\* label 2 holds pixel 4 in frames 4 and 5 only, the rest is background.
TenFrameScenario ==
    [i \in 1..10 |-> IF i \in {4, 5} THEN <<1, 1, 0, 2>> ELSE <<1, 1, 0, 0>>]

\* Three frames of two pixels: label 1 holds pixel 1 throughout and pixel 2
\* in the first frame only.
ThreeFrameScenario == <<(<<1, 1>>), (<<1, 0>>), (<<1, 0>>)>>

PersistInit ==
    /\ pc = "most_persistent_structures"
    /\ \/ labels \in [1..PersistB -> [1..PersistHW -> 0..PersistMaxLabel]]
       \/ labels \in {TenFrameScenario, ThreeFrameScenario}
    /\ min_frame_ratio \in {DefaultMinFrameRatio, <<1, 2>>}
    /\ min_area_ratio \in {DefaultMinAreaRatio, <<1, 2>>}
    /\ filtered_labels = labels
    /\ persistent_label = [p \in DOMAIN labels[1] |-> 0]
    /\ persistence_heap = {}
    /\ AssocIdle
    /\ MaskIdle
    /\ RenumIdle
    /\ CropIdle
    /\ PosIdle
    /\ EsoIdle
    /\ DCIdle

\* Lines 216-235: score every label, zero the unstable ones, push the others.
PersistScore ==
    /\ pc = "most_persistent_structures"
    /\ LET r == ScoreLoop(filtered_labels, {}, SortedSeq(BatchUniqueSet(filtered_labels)),
                          1, min_frame_ratio, min_area_ratio)
       IN /\ filtered_labels' = r[1]
          /\ persistence_heap' = r[2]
    /\ pc' = "recolor"
    /\ UNCHANGED <<labels, min_frame_ratio, min_area_ratio, persistent_label,
                   assocVars, maskVars, renumVars, cropVars, posVars, data_image, dcVars>>

\* Lines 238-244: write the retained labels into the consensus map.
PersistRecolor ==
    /\ pc = "recolor"
    /\ persistent_label' =
           RecolorLoop(persistent_label, persistence_heap, filtered_labels,
                       min_frame_ratio)
    /\ persistence_heap' = {}
    /\ pc' = "renumber"
    /\ UNCHANGED <<labels, min_frame_ratio, min_area_ratio, filtered_labels,
                   assocVars, maskVars, renumVars, cropVars, posVars, data_image, dcVars>>

\* A batch [B, H*W] as one array indexed by <<frame, pixel>>, and back.
BatchAsArray(batch) ==
    [ip \in {<<i, p>> : i \in DOMAIN batch, p \in DOMAIN batch[1]} |->
        batch[ip[1]][ip[2]]]

\* continuous_renumber(filtered_labels): one array, one table of values.
RenumberBatch(batch) ==
    LET r == continuous_renumber(BatchAsArray(batch))
    IN [i \in DOMAIN batch |-> [p \in DOMAIN batch[i] |-> r[<<i, p>>]]]

\* Lines 247-250: renumber both outputs and return them.
PersistRenumber ==
    /\ pc = "renumber"
    /\ persistent_label' = continuous_renumber(persistent_label)
    /\ filtered_labels' = RenumberBatch(filtered_labels)
    /\ pc' = "done"
    /\ UNCHANGED <<labels, min_frame_ratio, min_area_ratio, persistence_heap,
                   assocVars, maskVars, renumVars, cropVars, posVars, data_image, dcVars>>

PersistNext == PersistScore \/ PersistRecolor \/ PersistRenumber

SpecPersist == PersistInit /\ [][PersistNext]_vars

\* ------------------------------------------------------------------ C4
\* The adjacent pairs of the input batch in both frames of which l exists,
\* and the sum of l's areas in the earlier frame of those pairs.
C4_Pairs(l) ==
    {i \in 1..(Len(labels) - 1) :
        /\ \E p \in DOMAIN labels[i] : labels[i][p] = l
        /\ \E p \in DOMAIN labels[i + 1] : labels[i + 1][p] = l}
C4_AreaSum(l) ==
    Cardinality({ip \in C4_Pairs(l) \X DOMAIN labels[1] : labels[ip[1]][ip[2]] = l})

\* Mean area ratio below min_area_ratio, or fewer qualifying pairs than
\* min_frame_ratio * B.
C4_Discarded(l) ==
    LET n == Cardinality(C4_Pairs(l))
    IN \/ n * min_frame_ratio[2] < min_frame_ratio[1] * Len(labels)
       \/ IF n = 0 THEN 0 < min_area_ratio[1]
          ELSE C4_AreaSum(l) * min_area_ratio[2]
                   < min_area_ratio[1] * Len(labels[1]) * n

C9_ConsensusNeedsFrameFraction ==
    pc = "renumber" =>
        \A p \in DOMAIN persistent_label :
            persistent_label[p] # 0 =>
                Cardinality({i \in DOMAIN filtered_labels :
                                filtered_labels[i][p] = persistent_label[p]})
                        * min_frame_ratio[2]
                    > min_frame_ratio[1] * Len(filtered_labels)

\* ------------------------------------------------------------------ C10
\* C10: the final renumbering keeps 0 for the background: a pixel that holds
\* a retained non-zero label before it, in the consensus map or in the
\* filtered batch, holds a non-zero value after it.
C10_ZeroStaysBackground ==
    [][(pc = "renumber" /\ pc' = "done") =>
          /\ \A p \in DOMAIN persistent_label :
                persistent_label[p] # 0 => persistent_label'[p] # 0
          /\ \A i \in DOMAIN filtered_labels : \A p \in DOMAIN filtered_labels[i] :
                filtered_labels[i][p] # 0 => filtered_labels'[i][p] # 0]_vars

\* -------------------------------------------------------------- crop_or_pad
\* The stop of a slice that runs to the end of the axis.
None == -1

\* The index tuples (0-based) of an array of shape sh.
Indices(sh) ==
    {t \in [DOMAIN sh -> 0..CropMaxDim] : \A i \in DOMAIN sh : t[i] < sh[i]}

\* int(np.floor(d / 2)) for d >= 0
FloorHalf(d) == d \div 2

OutShapeMin(in_sh, out_sh, i) ==
    IF out_sh[i] >= in_sh[i] THEN FloorHalf(out_sh[i] - in_sh[i]) ELSE 0

OutShapeMax(in_sh, out_sh, i) ==
    IF out_sh[i] >= in_sh[i] THEN OutShapeMin(in_sh, out_sh, i) + in_sh[i] ELSE None

\* The start of the crop taken at offset 0 instead of centred.
InShapeMin_FromZero(in_sh, out_sh, i) == 0

InShapeMin(in_sh, out_sh, i) ==
    IF out_sh[i] >= in_sh[i] THEN 0 ELSE FloorHalf(in_sh[i] - out_sh[i])

InShapeMax(in_sh, out_sh, i) ==
    IF out_sh[i] >= in_sh[i] THEN None ELSE InShapeMin(in_sh, out_sh, i) + out_sh[i]

\* The indices slice(lo, hi) selects on an axis of length n, ascending:
\* a stop of None or beyond the end selects up to the end.
SliceIdx(lo, hi, n) ==
    LET stop == IF hi = None THEN n ELSE (IF hi < n THEN hi ELSE n)
    IN [k \in 1..(IF stop > lo THEN stop - lo ELSE 0) |-> lo + k - 1]

\* out_image[out_slicer] = in_image[in_slicer] on an array filled with
\* pad_value: per axis the source extent must equal the target extent or be 1
\* (broadcast); otherwise numpy raises ValueError.
SliceSrc(in_sh, out_sh) ==
    [i \in DOMAIN in_sh |-> SliceIdx(InShapeMin(in_sh, out_sh, i),
                                     InShapeMax(in_sh, out_sh, i), in_sh[i])]

SliceDst(in_sh, out_sh) ==
    [i \in DOMAIN in_sh |-> SliceIdx(OutShapeMin(in_sh, out_sh, i),
                                     OutShapeMax(in_sh, out_sh, i), out_sh[i])]

SliceFits(in_sh, out_sh) ==
    \A i \in DOMAIN in_sh :
        \/ Len(SliceSrc(in_sh, out_sh)[i]) = Len(SliceDst(in_sh, out_sh)[i])
        \/ Len(SliceSrc(in_sh, out_sh)[i]) = 1

SliceAssign(img, in_sh, out_sh, pad) ==
    LET D == DOMAIN in_sh
        src == SliceSrc(in_sh, out_sh)
        dst == SliceDst(in_sh, out_sh)
        \* the position of index x in the target slice of axis i, 0 if outside
        pos(i, x) == IF \E k \in DOMAIN dst[i] : dst[i][k] = x
                     THEN CHOOSE k \in DOMAIN dst[i] : dst[i][k] = x ELSE 0
    IN [t \in Indices(out_sh) |->
           IF \A i \in D : pos(i, t[i]) # 0
           THEN img[[i \in D |->
                    IF Len(src[i]) = 1 THEN src[i][1] ELSE src[i][pos(i, t[i])]]]
           ELSE pad]

Shapes(d) == [1..d -> 1..CropMaxDim]

\* An image whose elements are pairwise distinct and positive, so that the
\* place an output element came from can be read off its value.
RECURSIVE ElemCode(_, _)
ElemCode(t, i) ==
    IF i > Len(t) THEN 1 ELSE t[i] + (CropMaxDim + 1) * ElemCode(t, i + 1)

CropInit ==
    /\ pc = "crop_or_pad"
    /\ \E d \in 1..CropMaxRank : in_shape \in Shapes(d) /\ out_shape \in Shapes(d)
    /\ in_image = [t \in Indices(in_shape) |-> ElemCode(t, 1)]
    /\ pad_value \in {0, -1}
    /\ out_image = Idle
    /\ labels = Idle
    /\ AssocIdle
    /\ MaskIdle
    /\ RenumIdle
    /\ PersistIdle
    /\ PosIdle
    /\ EsoIdle
    /\ DCIdle

\* The whole call: it returns out_image, or the slice assignment raises.
CropOrPad ==
    /\ pc = "crop_or_pad"
    /\ IF SliceFits(in_shape, out_shape)
       THEN /\ out_image' = SliceAssign(in_image, in_shape, out_shape, pad_value)
            /\ pc' = "done"
       ELSE /\ out_image' = out_image
            /\ pc' = "ValueError"
    /\ UNCHANGED <<labels, in_image, in_shape, out_shape, pad_value,
                   assocVars, maskVars, renumVars, persistVars, posVars, data_image, dcVars>>

CropNext == CropOrPad

SpecCrop == CropInit /\ [][CropNext]_vars

\* ------------------------------------------------------------------ C5
\* The input index that lands on output index t along axis i: shifted by
\* floor((out - in) / 2) where the axis grows, by floor((in - out) / 2) where
\* it shrinks.
C5_Source(t, i) ==
    IF out_shape[i] >= in_shape[i]
    THEN t[i] - ((out_shape[i] - in_shape[i]) \div 2)
    ELSE t[i] + ((in_shape[i] - out_shape[i]) \div 2)

\* C5: the result has shape out_shape; each output element holds the input
\* element the centred placement (or crop) puts there and pad_value where
\* there is none; with out_shape = in_shape the output is the input.
C5_CenteredCropOrPad ==
    /\ pc # "ValueError"
    /\ pc = "done" =>
        /\ DOMAIN out_image = Indices(out_shape)
        /\ \A t \in Indices(out_shape) :
              LET s == [i \in DOMAIN in_shape |-> C5_Source(t, i)]
              IN IF \A i \in DOMAIN in_shape : 0 <= s[i] /\ s[i] < in_shape[i]
                 THEN out_image[t] = in_image[s]
                 ELSE out_image[t] = pad_value
        /\ (out_shape = in_shape => out_image = in_image)

\* One axis padded by an odd amount and another cropped by an odd amount.
C5_Witness ==
    /\ pc = "done"
    /\ Len(in_shape) = 2
    /\ out_shape[1] = in_shape[1] + 1
    /\ in_shape[2] = out_shape[2] + 1
    /\ \E t \in DOMAIN out_image : out_image[t] = pad_value
    /\ \E t \in DOMAIN out_image : out_image[t] # pad_value

\* --------------------------------------------------------- pos_enc_sinusoid
\* The number of indices the slice start:stop:step selects on an axis of
\* length n (start >= 0, step > 0; a stop of None or beyond n is n).
SliceLen(start, stop, step, n) ==
    LET hi == IF stop = None THEN n ELSE (IF stop < n THEN stop ELSE n)
    IN IF hi > start THEN (hi - start + step - 1) \div step ELSE 0

\* len(np.arange(0, freq, 2)): the frequency bands of `multiplier`.
NumBands(freq) == SliceLen(0, freq, 2, freq)

\* The channels each of the four assignments writes, in the order of the code:
\* [:freq:2], [1:freq:2], [freq::2], [freq + 1::2].
ChannelSlices(C) ==
    LET freq == C \div 2
    IN <<SliceLen(0, freq, 2, C), SliceLen(1, freq, 2, C),
         SliceLen(freq, None, 2, C), SliceLen(freq + 1, None, 2, C)>>

\* An assignment a[slice] = v: every axis of v must have the extent of the
\* target or extent 1; otherwise numpy raises ValueError.
BroadcastsTo(src, dst) == src = dst \/ src = 1

\* The four right-hand sides have shape (H, W, NumBands(freq)) after the
\* transpose and repeat, so only the channel axis can fail to fit.
PosEncAssignsFit(C) ==
    \A k \in 1..4 : BroadcastsTo(NumBands(C \div 2), ChannelSlices(C)[k])

PosInit ==
    /\ pc = "pos_enc_sinusoid"
    /\ shape \in (1..PosMaxHW) \X (1..PosMaxHW) \X (1..PosMaxC)
    /\ pos_enc = Idle
    /\ labels = Idle
    /\ AssocIdle
    /\ MaskIdle
    /\ RenumIdle
    /\ PersistIdle
    /\ CropIdle
    /\ EsoIdle
    /\ DCIdle

\* The whole call: np.zeros((H, W, C)) filled by the four assignments and
\* returned, or the ValueError of the first assignment that does not fit.
PosEncSinusoid ==
    /\ pc = "pos_enc_sinusoid"
    /\ IF PosEncAssignsFit(shape[3])
       THEN pos_enc' = shape /\ pc' = "done"
       ELSE pos_enc' = pos_enc /\ pc' = "ValueError"
    /\ UNCHANGED <<labels, shape, assocVars, maskVars, renumVars, persistVars,
                   cropVars, data_image, dcVars>>

PosNext == PosEncSinusoid

SpecPos == PosInit /\ [][PosNext]_vars

\* ------------------------------------------------------------------ C6
\* C6: for every shape (H, W, C) of positive integers the call completes and
\* returns an array of shape (H, W, C).
C6_PosEncTotal ==
    /\ pc # "ValueError"
    /\ pc = "done" => pos_enc = shape

\* ---------------------------------------------------------- EsophagusCancer
\* np.array(PIL image) holds unsigned 8-bit values.
UInt8Mod == 256

\* (self.data_image * 2) - 1 in the array's own type.
Rescale(x) == (((x * 2) % UInt8Mod) - 1) % UInt8Mod

EsoInit ==
    /\ pc = "EsophagusCancer.__init__"
    /\ data_image \in [1..EsoPixels -> 0..(UInt8Mod - 1)]
    /\ labels = Idle
    /\ AssocIdle
    /\ MaskIdle
    /\ RenumIdle
    /\ PersistIdle
    /\ CropIdle
    /\ PosIdle
    /\ DCIdle

\* Lines 30-33: the rescaling of the loaded array (the move of the channel
\* axis changes no value).
EsophagusRescale ==
    /\ pc = "EsophagusCancer.__init__"
    /\ data_image' = [p \in DOMAIN data_image |-> Rescale(data_image[p])]
    /\ pc' = "done"
    /\ UNCHANGED <<labels, assocVars, maskVars, renumVars, persistVars,
                   cropVars, posVars, dcVars>>

EsoNext == EsophagusRescale

SpecEso == EsoInit /\ [][EsoNext]_vars

\* ------------------------------------------------------------------ C7
\* C7: after construction every stored value lies within [-1, 1].
C7_ValuesInUnitRange ==
    pc = "done" => \A p \in DOMAIN data_image :
        -1 <= data_image[p] /\ data_image[p] <= 1

\* --------------------------------------------- diffusion_condensation_simple
\* The function computes in float64.  Here a real number v is kept in fixed
\* point, as the integer Floor(v * Scale); every product is rescaled at once,
\* so that no intermediate value leaves the 32-bit range.  A matrix [N, C] is
\* a sequence of N rows of C entries.
Scale == 10000

\* Arguments `similarity_thr` = 0.95 and `convergence_ratio` = 1e-4 (the
\* defaults, line 46-47), the latter as <<numerator, denominator>>.
similarity_thr == (95 * Scale) \div 100
convergence_ratio == <<1, 10000>>

\* The loop is cut after DCMaxIter passes that did not converge.
DCMaxIter == 6

RECURSIVE SumSeq(_)
SumSeq(s) == IF s = <<>> THEN 0 ELSE Head(s) + SumSeq(Tail(s))

Dot(u, v) == SumSeq([c \in DOMAIN u |-> u[c] * v[c]])

RECURSIVE ISqrtBetween(_, _, _)
ISqrtBetween(n, lo, hi) ==
    IF lo >= hi THEN lo
    ELSE LET mid == (lo + hi + 1) \div 2
         IN  IF mid * mid <= n THEN ISqrtBetween(n, mid, hi)
             ELSE ISqrtBetween(n, lo, mid - 1)

\* The Euclidean norm of a row, rounded down.
Norm(u) == ISqrtBetween(Dot(u, u), 0, 2 * Scale)

\* sklearn.preprocessing.normalize: every row scaled to unit L2 norm (a row
\* of norm zero is left as it is).
normalize(M) ==
    [i \in DOMAIN M |->
        LET n == Norm(M[i])
        IN  [c \in DOMAIN M[i] |->
                IF n = 0 THEN M[i][c] ELSE (M[i][c] * Scale) \div n]]

\* sklearn.metrics.pairwise.cosine_similarity: the Gram matrix of the
\* normalized rows.
cosine_similarity(M) ==
    LET Xn == normalize(M)
    IN  [i \in DOMAIN M |-> [j \in DOMAIN M |-> Dot(Xn[i], Xn[j]) \div Scale]]

\* Line 84: A = 1 / 2 + 1 / 2 * cosine_similarity(X).
Affinity(M) ==
    LET S == cosine_similarity(M)
    IN  [i \in DOMAIN M |-> [j \in DOMAIN M |-> (Scale + S[i][j]) \div 2]]

\* A variant of the thresholding that keeps every edge.
Threshold_KeepAll(M) == M

\* Line 85: A[A < similarity_thr] = 0.
Threshold(M) ==
    [i \in DOMAIN M |-> [j \in DOMAIN M |->
        IF M[i][j] < similarity_thr THEN 0 ELSE M[i][j]]]

Abs(x) == IF x < 0 THEN -x ELSE x

\* Line 87: MAE = np.sum(np.abs(A - A_prev)).
MAE(M, P) ==
    SumSeq([i \in DOMAIN M |->
        SumSeq([j \in DOMAIN M |-> Abs(M[i][j] - P[i][j])])])

\* Lines 90-93 and 98: X = D^-1 A X.  Row i of the result is the average of
\* the rows of X weighted by row i of A.
Diffuse(M, F) ==
    [i \in DOMAIN M |->
        LET d == SumSeq(M[i])
        IN  [c \in DOMAIN F[i] |->
                SumSeq([k \in DOMAIN M |-> M[i][k] * F[k][c]]) \div d]]

\* The nodes reachable from the set `seen` over the nonzero entries of M,
\* taken in either direction (directed=False).
RECURSIVE Reachable(_, _)
Reachable(M, seen) ==
    LET more == seen \cup {j \in DOMAIN M :
                    \E i \in seen : M[i][j] # 0 \/ M[j][i] # 0}
    IN  IF more = seen THEN seen ELSE Reachable(M, more)

\* The first node of the component of node i.
ComponentRoot(M, i) ==
    CHOOSE r \in Reachable(M, {i}) : \A j \in Reachable(M, {i}) : r <= j

\* Lines 95-96: sparse.csgraph.connected_components numbers the components
\* from 0 in the order of their first nodes.
connected_components(M) ==
    [i \in DOMAIN M |->
        Cardinality({ComponentRoot(M, j) : j \in
            {k \in DOMAIN M : ComponentRoot(M, k) < ComponentRoot(M, i)}})]

\* Line 104: MAE < convergence_ratio * N**2.
Converges(mae, N) ==
    mae < (convergence_ratio[1] * N * N * Scale) \div convergence_ratio[2]

\* The arguments drawn for X_orig: six rows of six features.  Three rows
\* lie about the first axis and three about the direction `dir` of the plane
\* of the first two axes; inside a group the rows are spread by the offsets
\* q1 and q2 along further axes, two of them equal when `dup` is not.  The
\* rows come group after group or interleaved.
DCDirections ==
    {<<9600, 2800>>, <<8000, 6000>>, <<6000, 8000>>, <<2800, 9600>>, <<0, 10000>>}
DCOffsets == {0, 1600, 2800, 6000}
DCOrders == {<<1, 2, 3, 4, 5, 6>>, <<1, 4, 2, 5, 3, 6>>}

TwoGroups(dir, q1, q2, dup, order) ==
    LET a1 == <<Scale, 0, q1, 0, 0, 0>>
        a2 == <<Scale, 0, 0, q1, 0, 0>>
        b1 == <<dir[1], dir[2], 0, 0, q2, 0>>
        b2 == <<dir[1], dir[2], 0, 0, 0, q2>>
        rows == <<a1, a2, IF dup THEN a2 ELSE a1, b1, b2, IF dup THEN b2 ELSE b1>>
    IN  [i \in 1..6 |-> rows[order[i]]]

DCInputs ==
    {TwoGroups(dir, q1, q2, dup, order) :
        dir \in DCDirections, q1 \in DCOffsets, q2 \in DCOffsets,
        dup \in BOOLEAN, order \in DCOrders}

DCInit ==
    /\ pc = "diffusion_condensation_simple"
    /\ X_orig \in DCInputs
    /\ X = Idle
    /\ A = Idle
    /\ A_prev = Idle
    /\ clusters = Idle
    /\ converged = FALSE
    /\ num_iter = 0
    /\ labels = Idle
    /\ AssocIdle
    /\ MaskIdle
    /\ RenumIdle
    /\ PersistIdle
    /\ CropIdle
    /\ PosIdle
    /\ EsoIdle

DCOther ==
    <<labels, assocVars, maskVars, renumVars, persistVars, cropVars, posVars,
      data_image>>

\* Lines 67-82 with pos_enc_gamma = 0 and return_all_segs = False: the rows
\* are normalized and A_prev is the zero matrix.
DCStart ==
    /\ pc = "diffusion_condensation_simple"
    /\ X' = normalize(X_orig)
    /\ A_prev' = [i \in DOMAIN X_orig |-> [j \in DOMAIN X_orig |-> 0]]
    /\ converged' = FALSE
    /\ pc' = "while"
    /\ UNCHANGED <<X_orig, A, clusters, num_iter, DCOther>>

\* Lines 83-85: the loop is entered again and A is computed and thresholded.
DCAffinity ==
    /\ pc = "while"
    /\ ~converged
    /\ num_iter < DCMaxIter
    /\ A' = Threshold(Affinity(X))
    /\ pc' = "diffuse"
    /\ UNCHANGED <<X_orig, X, A_prev, clusters, converged, num_iter, DCOther>>

\* Lines 87-105: the change of A is measured, the components are labeled,
\* the features are diffused and the convergence test is made.
DCDiffuse ==
    /\ pc = "diffuse"
    /\ A_prev' = A
    /\ clusters' = connected_components(A)
    /\ X' = Diffuse(A, X)
    /\ converged' = Converges(MAE(A, A_prev), Len(X_orig))
    /\ num_iter' = num_iter + 1
    /\ pc' = "while"
    /\ UNCHANGED <<X_orig, A, DCOther>>

\* Line 107: the loop is left and `clusters` is returned.
DCReturn ==
    /\ pc = "while"
    /\ converged
    /\ pc' = "done"
    /\ UNCHANGED <<dcVars, DCOther>>

DCNext == DCStart \/ DCAffinity \/ DCDiffuse \/ DCReturn

SpecDC == DCInit /\ [][DCNext]_vars

\* ------------------------------------------------------------------ C8
\* The affinities 0.5 + 0.5 * cos of the rows of X_orig, before thresholding.
C8_Affinity0 == Affinity(normalize(X_orig))

\* The ways of naming three of the rows a group; the others are the second.
C8_Groups == {G \in SUBSET DOMAIN X_orig : Cardinality(G) = 3}

\* Inside both groups every affinity of `aff` is at or above the threshold and across
\* the groups every affinity is below `limit`.
C8_Separated(aff, G, limit) ==
    \A i, j \in DOMAIN aff :
        IF (i \in G) = (j \in G)
        THEN aff[i][j] >= similarity_thr
        ELSE aff[i][j] < limit

\* The labels are equal inside the groups and differ across them (hence two
\* distinct values).
C8_Partitioned(G) ==
    /\ \A i, j \in DOMAIN X_orig :
          (clusters[i] = clusters[j]) = ((i \in G) = (j \in G))
    /\ Cardinality({clusters[i] : i \in DOMAIN X_orig}) = 2

\* The loop has made DCMaxIter passes and has not converged.
C8_NotConverged == pc = "while" /\ ~converged /\ num_iter >= DCMaxIter

C8_Outcome(G) ==
    /\ ~C8_NotConverged
    /\ pc = "done" => converged /\ C8_Partitioned(G)

\* C8 as stated: with two groups of 3 among 6 rows, within-group affinity at
\* or above similarity_thr and cross-group affinity below it, the loop sets
\* converged after finitely many passes (here: within DCMaxIter) and the
\* returned labels take exactly 2 values, equal within each group and
\* different across the groups.
C8_SeparatedAtThreshold ==
    LET aff == C8_Affinity0
    IN  \A G \in C8_Groups :
            C8_Separated(aff, G, similarity_thr) => C8_Outcome(G)

\* With c = 2 * similarity_thr - 1 the least cosine inside a group, the
\* cosine of two averages taken one in each group is below c as long as the
\* cosines across the groups are below c * c: the affinity 0.5 + 0.5 * c * c.
C8_CrossLimit ==
    LET c == 2 * similarity_thr - Scale
    IN  (Scale + (c * c) \div Scale) \div 2

\* C8, amended: the same, for groups whose cross-group affinity is below
\* 0.5 + 0.5 * (2 * similarity_thr - 1)^2 (0.905 for the threshold 0.95).
C8_SeparatedBelowSquare ==
    LET aff == C8_Affinity0
    IN  \A G \in C8_Groups :
            C8_Separated(aff, G, C8_CrossLimit) => C8_Outcome(G)

\* Two such groups with rows that differ inside a group, given interleaved,
\* returned as two clusters after three passes or more.
C8_Witness ==
    /\ pc = "done"
    /\ num_iter >= 3
    /\ C8_Separated(C8_Affinity0, {1, 3, 5}, C8_CrossLimit)
    /\ C8_Partitioned({1, 3, 5})
    /\ X_orig[1] # X_orig[3]
    /\ X_orig[2] # X_orig[4]

====
